---- MODULE Spec2Model ----
(***************************************************************************)
(* A model of jasonhancock/go-logger: the level model (ParseLevel,         *)
(* Level.String), the logger handle L with its derivations New and With,    *)
(* the leveled logging methods, LogError and the DynamicLeveler.            *)
(*                                                                         *)
(* The repository holds three revisions of the logger, all modelled:       *)
(*   "gokit"  the go-kit/log based logger        (src/unnamed/part_004)     *)
(*   "slog1"  the first log/slog based logger    (src/unnamed/part_003,     *)
(*            lines 286-507)                                                *)
(*   "slog2"  the current log/slog based logger  (src/unnamed/part_003,     *)
(*            lines 1-284)                                                  *)
(* Strings are TLA+ strings; a []string is a slice over a backing array.    *)
(***************************************************************************)
EXTENDS Integers, Sequences, FiniteSets, TLC

VARIABLES
    pin,        \* pure functions: the input under test
    pout,       \* pure functions: the last call and its result
    rev,        \* logger: the revision of the code that runs
    arrays,     \* logger: the heap of []string backing arrays
    handles,    \* logger: every *L created so far
    out,        \* logger: the records the last logging call wrote
    last,       \* logger: the last logging call made (who, what, with what)
    pc,         \* logger: position inside Fatal ("idle" outside it)
    exitStatus, \* logger: the status os.Exit was called with, NoExit if not
    fault,      \* logger: the method that panicked, "none" if none did
    tpc,        \* goroutines: the position of each inside its call
    tloc,       \* goroutines: the locals of each one's call
    dyn,        \* leveler: the content of the DynamicLeveler's atomic.Value
    started,    \* leveler: the arguments of the SetLevel calls started so far
    settled     \* leveler: the SetLevel that returned with none started since

levelVars   == <<pin, pout>>
loggerVars  == <<rev, arrays, handles, out, last, pc, exitStatus, fault>>
threadVars  == <<tpc, tloc>>
levelerVars == <<dyn, started, settled>>
offLogger   == <<pin, pout, tpc, tloc, dyn, started, settled>>
vars        == <<pin, pout, rev, arrays, handles, out, last, pc, exitStatus,
                 fault, tpc, tloc, dyn, started, settled>>

(***************************************************************************)
(* Bounds of the model.                                                    *)
(***************************************************************************)
MaxLen == 2
MaxHandles == 2
MaxDeriveHandles == 6
MaxErrs == 2
MaxParentDepth == 2

(***************************************************************************)
(* Strings.                                                                *)
(***************************************************************************)
UpperOf == [c \in {"a", "e", "f", "i", "l", "r", "w"} |->
              CASE c = "a" -> "A" [] c = "e" -> "E" [] c = "f" -> "F"
                [] c = "i" -> "I" [] c = "l" -> "L" [] c = "r" -> "R"
                [] c = "w" -> "W"]

LowerChar(c) ==
    IF \E l \in DOMAIN UpperOf : UpperOf[l] = c
    THEN CHOOSE l \in DOMAIN UpperOf : UpperOf[l] = c
    ELSE c

RECURSIVE ToLower(_)
ToLower(s) ==
    IF s = "" THEN ""
    ELSE LowerChar(SubSeq(s, 1, 1)) \o ToLower(SubSeq(s, 2, Len(s)))

RECURSIVE ToUpper(_)
ToUpper(s) ==
    IF s = "" THEN ""
    ELSE LET c == SubSeq(s, 1, 1)
         IN (IF c \in DOMAIN UpperOf THEN UpperOf[c] ELSE c)
                \o ToUpper(SubSeq(s, 2, Len(s)))

HasPrefix(s, prefix) ==
    /\ Len(prefix) <= Len(s)
    /\ SubSeq(s, 1, Len(prefix)) = prefix

(***************************************************************************)
(* The level model.                                                        *)
(***************************************************************************)
\* go-kit revision: Level is an int8, the constants are an iota block.
All   == 0
Fatal == 1
Err   == 2
Warn  == 3
Info  == 4
Debug == 5

\* slog revisions: the levels are slog.Level values.
LevelAll   == -10
LevelDebug == -4
LevelInfo  == 0
LevelWarn  == 4
LevelError == 8
LevelFatal == 12

Revisions     == {"gokit", "slog1", "slog2"}
SlogRevisions == {"slog1", "slog2"}

levelNamesKit ==
    (All :> "all") @@ (Fatal :> "fatal") @@ (Err :> "err") @@
    (Warn :> "warn") @@ (Info :> "info") @@ (Debug :> "debug")

levelNamesSlog ==
    (LevelAll :> "all") @@ (LevelFatal :> "fatal") @@ (LevelError :> "err") @@
    (LevelWarn :> "warn") @@ (LevelInfo :> "info") @@ (LevelDebug :> "debug")

levelNames(r) == IF r = "gokit" THEN levelNamesKit ELSE levelNamesSlog

AllOf(r) == IF r = "gokit" THEN All ELSE LevelAll

\* The levels whose name the loop of ParseLevel can stop at: `range` over a
\* map visits the entries in an order the runtime picks anew on every run.
ParseLevelMatches(r, s) ==
    {l \in DOMAIN levelNames(r) : HasPrefix(levelNames(r)[l], ToLower(s))}

\* Every value ParseLevel(s) can return.
ParseLevel(r, s) ==
    IF ParseLevelMatches(r, s) = {} THEN {AllOf(r)} ELSE ParseLevelMatches(r, s)

\* Level.String without the `ok` check: a missing key reads as "".
LevelString_NoFallback(l) ==
    IF l \in DOMAIN levelNamesKit THEN levelNamesKit[l] ELSE ""

\* Level.String of the go-kit revision.
LevelString(l) ==
    IF l \in DOMAIN levelNamesKit THEN levelNamesKit[l] ELSE levelNamesKit[All]

(***************************************************************************)
(* The inputs of the level model.                                          *)
(***************************************************************************)
CanonicalNames == {"all", "fatal", "err", "warn", "info", "debug"}

Alphabet == {"a", "e", "r", "x", "A"}

RECURSIVE Strs(_)
Strs(n) ==
    IF n = 0 THEN {""}
    ELSE LET p == Strs(n - 1) IN p \cup {s \o c : s \in p, c \in Alphabet}

NamePrefixes ==
    UNION {{SubSeq(n, 1, k) : k \in 0..Len(n)} : n \in CanonicalNames}

\* Prefixes of the canonical names in lower, upper and capitalised form, the
\* near-misses "error" and "warning", and every string over Alphabet of at
\* most MaxLen characters.
LevelInputs ==
    NamePrefixes
        \cup {ToUpper(p) : p \in NamePrefixes}
        \cup {ToUpper(SubSeq(p, 1, 1)) \o SubSeq(p, 2, Len(p)) :
                 p \in NamePrefixes \ {""}}
        \cup {"error", "warning", "Error", "WARNING"}
        \cup Strs(MaxLen)

\* Level values handed to Level.String: the defined ones and some that are not.
LevelValues == (All - 2)..(Debug + 2)

NoCall == [op |-> "none", r |-> "gokit", s |-> "", l |-> 0, res |-> 0, name |-> ""]

(***************************************************************************)
(* The logger is not running while the level model is exercised, and the   *)
(* other way round.                                                        *)
(***************************************************************************)
NoExit == -1

NoRecord == <<>>

NoLast == [op |-> "none"]

LoggerIdle ==
    /\ rev = "gokit"
    /\ arrays = <<>>
    /\ handles = <<>>
    /\ out = NoRecord
    /\ last = NoLast
    /\ pc = "idle"
    /\ exitStatus = NoExit
    /\ fault = "none"

LevelIdle ==
    /\ pin = ""
    /\ pout = NoCall

NumThreads == 2

Threads == 1..NumThreads

NoLocals == [op |-> "none"]

NoValue == [set |-> FALSE, val |-> 0]

NoSetLevel == [set |-> FALSE, s |-> "", val |-> 0]

ThreadsIdle ==
    /\ tpc = [t \in Threads |-> "idle"]
    /\ tloc = [t \in Threads |-> NoLocals]

LevelerIdle ==
    /\ dyn = NoValue
    /\ started = {}
    /\ settled = NoSetLevel

(***************************************************************************)
(* Specification of the level model: one call per step on a drawn input.   *)
(***************************************************************************)
InitLevel ==
    /\ pin \in LevelInputs
    /\ pout = NoCall
    /\ LoggerIdle
    /\ ThreadsIdle
    /\ LevelerIdle

DoParseLevel ==
    /\ \E r \in Revisions : \E l \in ParseLevel(r, pin) :
          pout' = [op |-> "ParseLevel", r |-> r, s |-> pin, l |-> 0,
                   res |-> l, name |-> ""]
    /\ UNCHANGED <<pin, loggerVars, threadVars, levelerVars>>

DoString ==
    /\ \E l \in LevelValues :
          pout' = [op |-> "String", r |-> "gokit", s |-> "", l |-> l,
                   res |-> 0, name |-> LevelString(l)]
    /\ UNCHANGED <<pin, loggerVars, threadVars, levelerVars>>

\* ParseLevel(l.String()) for a defined level l of the go-kit revision.
DoRoundTrip ==
    /\ \E l \in DOMAIN levelNamesKit :
        \E res \in ParseLevel("gokit", LevelString(l)) :
          pout' = [op |-> "RoundTrip", r |-> "gokit", s |-> LevelString(l),
                   l |-> l, res |-> res, name |-> LevelString(l)]
    /\ UNCHANGED <<pin, loggerVars, threadVars, levelerVars>>

NextLevel == DoParseLevel \/ DoString \/ DoRoundTrip

SpecLevel == InitLevel /\ [][NextLevel]_vars

\* C6: ParseLevel(s) returns the one level whose canonical name s is a
\* non-empty case-insensitive prefix of, and returns "all" when s is empty or
\* is a prefix of no canonical name.
C6_ParseLevelResult ==
    pout.op = "ParseLevel" =>
        LET hits == {n \in CanonicalNames : HasPrefix(n, ToLower(pout.s))}
        IN  IF pout.s # "" /\ hits # {}
            THEN \A n \in hits : levelNames(pout.r)[pout.res] = n
            ELSE levelNames(pout.r)[pout.res] = "all"

\* C7: ParseLevel(l.String()) = l for every defined level l, and String() of
\* a value that is no defined level is the name of "all".
C7_RoundTrip ==
    /\ pout.op = "RoundTrip" => pout.res = pout.l
    /\ (pout.op = "String" /\ pout.l \notin {All, Fatal, Err, Warn, Info, Debug})
          => pout.name = "all"

C7_Witness ==
    pout.op = "RoundTrip" /\ pout.l = Debug /\ pout.s = "debug" /\ pout.res = Debug

(***************************************************************************)
(* Slices of strings.  A slice is a window [1..len] on a backing array of  *)
(* the heap; its capacity is the length of that array.  Cells past every   *)
(* slice's len hold the zero value "".                                     *)
(***************************************************************************)
SliceCap(a, s) == Len(a[s.arr])

SliceElems(a, s) == SubSeq(a[s.arr], 1, s.len)

\* The capacity the runtime gives a grown slice: it doubles a small one.
GrowCap(oldcap, needed) == IF needed > 2 * oldcap THEN needed ELSE 2 * oldcap

\* append(s, x): writes the cell after s in place when the capacity allows,
\* else copies s into a fresh array.  Returns the heap and the new slice.
AppendStr(a, s, x) ==
    IF s.len < SliceCap(a, s)
    THEN [arrays |-> [a EXCEPT ![s.arr][s.len + 1] = x],
          slice  |-> [arr |-> s.arr, len |-> s.len + 1]]
    ELSE LET cap   == GrowCap(SliceCap(a, s), s.len + 1)
             fresh == [i \in 1..cap |->
                         IF i <= s.len THEN a[s.arr][i]
                         ELSE IF i = s.len + 1 THEN x ELSE ""]
         IN  [arrays |-> Append(a, fresh),
              slice  |-> [arr |-> Len(a) + 1, len |-> s.len + 1]]

RECURSIVE Join(_, _)
Join(elems, sep) ==
    IF elems = <<>> THEN ""
    ELSE IF Len(elems) = 1 THEN elems[1]
    ELSE elems[1] \o sep \o Join(Tail(elems), sep)

(***************************************************************************)
(* The logger handle L and its construction.                              *)
(***************************************************************************)
Nil == 0

RootName == "somelogger"

StaticFields == <<<<"key1", "value1">>>>

TS == "<ts>"

\* The caller string runtime.Caller and runtime.FuncForPC resolve for the
\* call site: package path, file name, line.
CALLER == "g/p/f.go:29"

\* strings.TrimPrefix
TrimPrefix(s, prefix) ==
    IF HasPrefix(s, prefix) THEN SubSeq(s, Len(prefix) + 1, Len(s)) ELSE s

\* caller with the guard dropped: the prefix is cut off whatever follows it.
caller_CutLength(c, prefixTrim) ==
    IF Len(prefixTrim) <= Len(c)
    THEN SubSeq(c, Len(prefixTrim) + 1, Len(c))
    ELSE c

\* caller(depth, prefixTrim), for a call site that resolves to c.
caller(c, prefixTrim) ==
    IF prefixTrim # "" THEN TrimPrefix(c, prefixTrim) ELSE c

\* New of the go-kit revision: ts and caller are bound first, then keyvals.
NewKit(name, level, keyvals) ==
    [logger     |-> <<<<"ts", TS>>, <<"caller", CALLER>>>> \o keyvals,
     level      |-> level,
     src        |-> [arr |-> 1, len |-> 1],
     showCaller |-> TRUE,
     trim       |-> "",
     chain      |-> <<name>>,
     via        |-> <<>>]

\* New of the slog revisions: keyvals, then src, are bound to the handler.
NewSlog(name, level, keyvals, showCaller, callerPrefixTrim) ==
    [logger     |-> keyvals \o <<<<"src", name>>>>,
     level      |-> level,
     src        |-> [arr |-> 1, len |-> 1],
     showCaller |-> showCaller,
     trim       |-> callerPrefixTrim,
     chain      |-> <<name>>,
     via        |-> <<>>]

\* (*L).source of the go-kit revision.
source(a, h) == Join(SliceElems(a, h.src), ".")

\* (*L).New.  Returns the heap and the child.  `chain` and `via` are not
\* fields of L: chain records the names given along the handle's own
\* derivation, via the calls that derived it.  `trim` is callerPrefixTrim, a
\* field of the latest revision only.
ChildNew(r, a, h, name) ==
    LET first == AppendStr(a, h.src, name)
    IN  IF r = "gokit"
        THEN [arrays |-> first.arrays,
              handle |-> [logger |-> h.logger, level |-> h.level,
                          src |-> first.slice, showCaller |-> h.showCaller,
                          trim |-> h.trim,
                          chain |-> Append(h.chain, name),
                          via |-> Append(h.via, <<"New", name>>)]]
        ELSE \* the second append's result is a temporary, dropped after Join
             LET second == AppendStr(first.arrays, h.src, name)
                 joined == Join(SliceElems(second.arrays, second.slice), ".")
             IN  [arrays |-> first.arrays,
                  handle |-> [logger |-> Append(h.logger, <<"src", joined>>),
                              level |-> h.level,
                              src |-> first.slice,
                              showCaller |-> IF r = "slog1" THEN FALSE
                                             ELSE h.showCaller,
                              trim |-> h.trim,
                              chain |-> Append(h.chain, name),
                              via |-> Append(h.via, <<"New", name>>)]]

\* With binding only the new pairs, on a fresh backend.
ChildWith_Replace(r, h, keyvals) ==
    [logger     |-> keyvals,
     level      |-> h.level,
     src        |-> h.src,
     showCaller |-> IF r = "slog1" THEN FALSE ELSE h.showCaller,
     trim       |-> h.trim,
     chain      |-> h.chain,
     via        |-> Append(h.via, <<"With", keyvals>>)]

\* (*L).With.
ChildWith(r, h, keyvals) ==
    [logger     |-> h.logger \o keyvals,
     level      |-> h.level,
     src        |-> h.src,
     showCaller |-> IF r = "slog1" THEN FALSE ELSE h.showCaller,
     trim       |-> h.trim,
     chain      |-> h.chain,
     via        |-> Append(h.via, <<"With", keyvals>>)]

(***************************************************************************)
(* Writing a record.  A record is the sequence of its <<key, value>>       *)
(* pairs in the order the backend writes them.                             *)
(***************************************************************************)
\* The early return with >= for >: a message at the threshold is dropped.
FilteredKit_OffByOne(level, threshold) == level >= threshold /\ threshold # All

\* (*L).log of the go-kit revision: the early return that drops a message.
FilteredKit(level, threshold) == level > threshold /\ threshold # All

\* The slog handler's Enabled, with HandlerOptions.Level = threshold.
EnabledSlog(level, threshold) == level >= threshold

\* The label ReplaceAttr gives the level attribute.
LevelLabel(level) == levelNamesSlog[level]

\* The records one call of (*L).log writes: none or one.
LogKit(a, h, level, msg, keyvals) ==
    IF FilteredKit(level, h.level) THEN <<>>
    ELSE <<h.logger
             \o <<<<"src", source(a, h)>>, <<"level", LevelString(level)>>,
                  <<"msg", msg>>>>
             \o keyvals>>

LogSlog(h, level, msg, keyvals) ==
    LET kv == IF h.showCaller
              THEN Append(keyvals, <<"caller", caller(CALLER, h.trim)>>)
              ELSE keyvals
    IN  IF EnabledSlog(level, h.level)
        THEN <<<<<<"ts", TS>>, <<"level", LevelLabel(level)>>, <<"msg", msg>>>>
                 \o h.logger \o kv>>
        ELSE <<>>

\* The level each logging method logs at, per revision.
MethodLevel(r, m) ==
    IF r = "gokit"
    THEN CASE m = "Debug" -> Debug [] m = "Info" -> Info [] m = "Warn" -> Warn
           [] m = "Err" -> Err [] m = "Fatal" -> Fatal
    ELSE CASE m = "Debug" -> LevelDebug [] m = "Info" -> LevelInfo
           [] m = "Warn" -> LevelWarn [] m = "Err" -> LevelError
           [] m = "Fatal" -> LevelFatal

\* What a logging method does on receiver i (Nil or an index of handles):
\* the records written and whether the call panics.  The go-kit methods read
\* l.logger and l.src to build their argument before (*L).log tests l == nil.
Emit(r, a, hs, i, m, msg, keyvals) ==
    IF i = Nil
    THEN [records |-> <<>>, panics |-> (r = "gokit")]
    ELSE [records |-> IF r = "gokit"
                      THEN LogKit(a, hs[i], MethodLevel(r, m), msg, keyvals)
                      ELSE LogSlog(hs[i], MethodLevel(r, m), msg, keyvals),
          panics  |-> FALSE]

(***************************************************************************)
(* LogError.                                                               *)
(***************************************************************************)
Digits == <<"0", "1", "2", "3", "4", "5", "6", "7", "8", "9">>

RECURSIVE Decimal(_)
Decimal(n) ==
    IF n < 10 THEN Digits[n + 1]
    ELSE Decimal(n \div 10) \o Digits[(n % 10) + 1]

\* fmt.Sprintf("error_%d", i): the index without its padding.
ErrorKey_NoPad(i) == "error_" \o Decimal(i)

\* fmt.Sprintf("error_%02d", i)
ErrorKey(i) == "error_" \o (IF i < 10 THEN "0" \o Decimal(i) ELSE Decimal(i))

\* The key-value pairs LogError adds for err: one per wrapped error of a
\* multi-error, a single "error" pair for any other error.
ErrorFields(err) ==
    IF err.kind = "multi"
    THEN [i \in 1..Len(err.msgs) |-> <<ErrorKey(i - 1), err.msgs[i]>>]
    ELSE <<<<"error", err.text>>>>

\* The key-value pairs LogError logs: only the latest revision takes
\* caller-supplied pairs, and puts them first.
LogErrorKeyvals(r, err, keyvals) ==
    IF r = "slog2" THEN keyvals \o ErrorFields(err) ELSE ErrorFields(err)

(***************************************************************************)
(* The logger as a state machine: derivations and logging calls on the     *)
(* handles created so far, by one goroutine.                               *)
(***************************************************************************)
Names == {"sublogger", "grandchild"}

Msg == "foo"

CallKeyvals == {<<>>, <<<<"key2", "value2">>>>}

WithKeyvals == {<<<<"key4", "value4">>>>}

ErrMsgs == {"some err1", "some err2"}

RECURSIVE SeqsUpTo(_, _)
SeqsUpTo(S, n) ==
    IF n = 0 THEN {<<>>}
    ELSE LET p == SeqsUpTo(S, n - 1)
         IN  p \cup {Append(s, x) : s \in p, x \in S}

\* The non-nil errors handed to LogError: a plain error, and multi-errors
\* wrapping up to MaxErrs errors.
Errors ==
    {[kind |-> "plain", text |-> "some error message", msgs |-> <<>>]}
        \cup {[kind |-> "multi", text |-> Join(m, "\n"), msgs |-> m] :
                 m \in SeqsUpTo(ErrMsgs, MaxErrs)}

RootLevelStrings == {"", "all", "FATAL", "err", "Warn", "info", "d"}

Alive == exitStatus = NoExit /\ fault = "none"

InitLogger(levelStrings, callerFlags, trims) ==
    /\ rev \in Revisions
    /\ \E s \in levelStrings : \E t \in ParseLevel(rev, s) :
       \E sc \in callerFlags : \E p \in trims :
          handles = <<IF rev = "gokit"
                      THEN NewKit(RootName, t, StaticFields)
                      ELSE NewSlog(RootName, t, StaticFields, sc,
                                   IF rev = "slog2" THEN p ELSE "")>>
    /\ arrays = <<<<RootName>>>>
    /\ out = NoRecord
    /\ last = NoLast
    /\ pc = "idle"
    /\ exitStatus = NoExit
    /\ fault = "none"

\* l.New(name) on an existing handle.
DeriveNew(maxHandles) ==
    /\ Alive /\ pc = "idle"
    /\ Len(handles) < maxHandles
    /\ \E i \in 1..Len(handles) : \E n \in Names :
          LET c == ChildNew(rev, arrays, handles[i], n)
          IN  /\ arrays' = c.arrays
              /\ handles' = Append(handles, c.handle)
    /\ UNCHANGED <<offLogger, rev, out, last, pc, exitStatus, fault>>

\* l.With(keyvals...) on an existing handle.
DeriveWith(maxHandles) ==
    /\ Alive /\ pc = "idle"
    /\ Len(handles) < maxHandles
    /\ \E i \in 1..Len(handles) : \E kv \in WithKeyvals :
          handles' = Append(handles, ChildWith(rev, handles[i], kv))
    /\ UNCHANGED <<offLogger, rev, arrays, out, last, pc, exitStatus, fault>>

\* l.Debug / l.Info / l.Warn / l.Err on a handle, or on a nil *L.
LogCall(methods, receivers, keyvalsSet) ==
    /\ Alive /\ pc = "idle"
    /\ \E i \in receivers : \E m \in methods : \E kv \in keyvalsSet :
          LET e == Emit(rev, arrays, handles, i, m, Msg, kv)
          IN  /\ out' = e.records
              /\ fault' = IF e.panics THEN m ELSE "none"
              /\ last' = [op |-> m, h |-> i, msg |-> Msg, keyvals |-> kv]
    /\ UNCHANGED <<offLogger, rev, arrays, handles, pc, exitStatus>>

\* The status Fatal hands to os.Exit.
FatalExitStatus == 1

\* Fatal with its two statements swapped.
FatalOrder_ExitFirst == <<"exit", "log">>

\* Fatal's two statements, in the order it runs them.
FatalOrder == <<"log", "exit">>

FatalStep(s, i, kv) ==
    IF s = "log"
    THEN LET e == Emit(rev, arrays, handles, i, "Fatal", Msg, kv)
         IN  /\ out' = e.records
             /\ fault' = IF e.panics THEN "Fatal" ELSE "none"
             /\ UNCHANGED exitStatus
    ELSE /\ exitStatus' = FatalExitStatus
         /\ UNCHANGED <<out, fault>>

\* l.Fatal: its first statement.
FatalCall ==
    /\ Alive /\ pc = "idle"
    /\ \E i \in 0..Len(handles) : \E kv \in CallKeyvals :
          /\ last' = [op |-> "Fatal", h |-> i, msg |-> Msg, keyvals |-> kv]
          /\ FatalStep(FatalOrder[1], i, kv)
    /\ pc' = "Fatal"
    /\ UNCHANGED <<offLogger, rev, arrays, handles>>

\* l.Fatal: its second statement; the process is gone after os.Exit.
FatalReturn ==
    /\ Alive /\ pc = "Fatal"
    /\ FatalStep(FatalOrder[2], last.h, last.keyvals)
    /\ pc' = "idle"
    /\ UNCHANGED <<offLogger, rev, arrays, handles, last>>

\* l.LogError(msg, err, keyvals...) with a non-nil err.
LogErrorCall ==
    /\ Alive /\ pc = "idle"
    /\ \E i \in 0..Len(handles) : \E err \in Errors :
       \E kv \in IF rev = "slog2" THEN CallKeyvals ELSE {<<>>} :
          LET e == Emit(rev, arrays, handles, i, "Err", Msg,
                        LogErrorKeyvals(rev, err, kv))
          IN  /\ out' = e.records
              /\ fault' = IF e.panics THEN "LogError" ELSE "none"
              /\ last' = [op |-> "LogError", h |-> i, msg |-> Msg,
                          keyvals |-> kv, err |-> err]
    /\ UNCHANGED <<offLogger, rev, arrays, handles, pc, exitStatus>>

LogMethods == {"Debug", "Info", "Warn", "Err"}

Init ==
    /\ LevelIdle
    /\ ThreadsIdle
    /\ LevelerIdle
    /\ InitLogger(RootLevelStrings, BOOLEAN, {""})

Next ==
    \/ DeriveNew(MaxHandles)
    \/ DeriveWith(MaxHandles)
    \/ LogCall(LogMethods, 0..Len(handles), CallKeyvals)
    \/ FatalCall
    \/ FatalReturn
    \/ LogErrorCall

Spec == Init /\ [][Next]_vars

(***************************************************************************)
(* What the claims say about a record, stated without the code's own       *)
(* operators.                                                              *)
(***************************************************************************)
\* The severity order of the canonical level names, least severe first.
Severity(name) ==
    CASE name = "debug" -> 1 [] name = "info" -> 2 [] name = "warn" -> 3
      [] name = "err" -> 4 [] name = "fatal" -> 5

MethodLevelName(m) ==
    CASE m = "Debug" -> "debug" [] m = "Info" -> "info" [] m = "Warn" -> "warn"
      [] m = "Err" -> "err" [] m = "Fatal" -> "fatal" [] m = "LogError" -> "err"

\* The canonical name of the threshold handle i was configured with.
ThresholdName(i) == levelNames(rev)[handles[i].level]

\* A message of level name m passes threshold name t.
Passes(m, t) == t = "all" \/ Severity(m) >= Severity(t)

\* The values record rec carries under key k, in order.
ValuesOf(rec, k) == SelectSeq(rec, LAMBDA f : f[1] = k)

HasField(rec, k, v) == \E j \in 1..Len(rec) : rec[j] = <<k, v>>

\* C1: on a non-nil logger with threshold T, the logging method of level M
\* writes exactly one record (at level M) when M is at least as severe as T
\* or T is "all", and writes nothing otherwise.
C1_LevelFiltering ==
    (last.op \in LogMethods \cup {"Fatal"} /\ last.h # Nil) =>
        IF Passes(MethodLevelName(last.op), ThresholdName(last.h))
        THEN /\ Len(out) = 1
             /\ HasField(out[1], "level", MethodLevelName(last.op))
             /\ HasField(out[1], "msg", last.msg)
        ELSE out = <<>>

\* Debug on an info-level logger wrote nothing.
C1_Witness ==
    /\ last.op = "Debug" /\ last.h # Nil
    /\ ThresholdName(last.h) = "info"
    /\ out = <<>>

\* C5: a logging method called on a nil *L does not panic and writes
\* nothing, in every revision.
C5_NilReceiverSafe ==
    (last.op \in LogMethods \cup {"Fatal", "LogError"} /\ last.h = Nil) =>
        fault = "none" /\ out = <<>>

\* "error_" and the two-digit index i.
TwoDigitKey(i) == "error_" \o Digits[(i \div 10) + 1] \o Digits[(i % 10) + 1]

\* The positions in rec of the keys that start with "error".
ErrorPositions(rec) == {j \in 1..Len(rec) : HasPrefix(rec[j][1], "error")}

\* rec is the record LogError is to write for its last call: error level,
\* msg, the error fields in the list's order and no other error field, and
\* every pair the caller supplied.
LogErrorRecordOK(rec) ==
    /\ HasField(rec, "level", "err")
    /\ HasField(rec, "msg", last.msg)
    /\ \A j \in 1..Len(last.keyvals) :
          HasField(rec, last.keyvals[j][1], last.keyvals[j][2])
    /\ IF last.err.kind = "multi"
       THEN LET n == Len(last.err.msgs)
            IN  /\ Cardinality(ErrorPositions(rec)) = n
                /\ \E first \in 0..Len(rec) :
                      /\ ErrorPositions(rec) = (first + 1)..(first + n)
                      /\ \A i \in 1..n :
                            rec[first + i] = <<TwoDigitKey(i - 1), last.err.msgs[i]>>
       ELSE /\ Cardinality(ErrorPositions(rec)) = 1
            /\ HasField(rec, "error", last.err.text)

\* C8 as stated: LogError with a non-nil error always emits one error-level
\* record with the error fields (error_00, error_01, ... in order for a
\* multi-error, a single error field otherwise), msg and the caller's pairs.
C8_LogErrorAlwaysEmits ==
    (last.op = "LogError" /\ last.h # Nil) =>
        Len(out) = 1 /\ LogErrorRecordOK(out[1])

\* C8 as amended: LogError emits that record when the error level passes the
\* logger's threshold, and nothing when it does not.
C8_LogErrorFields ==
    (last.op = "LogError" /\ last.h # Nil) =>
        IF Passes("err", ThresholdName(last.h))
        THEN Len(out) = 1 /\ LogErrorRecordOK(out[1])
        ELSE out = <<>>

\* A multi-error of two wrapped errors, logged with a caller-supplied pair.
C8_Witness ==
    /\ last.op = "LogError" /\ last.h # Nil
    /\ last.err.kind = "multi"
    /\ last.err.msgs = <<"some err2", "some err1">>
    /\ last.keyvals # <<>>
    /\ Len(out) = 1
    /\ HasField(out[1], "error_01", "some err1")

\* C9: Fatal on a non-nil logger, whatever the threshold, has written its
\* fatal-level record before it asks for termination, and asks for it with
\* status 1.
C9_FatalOrdering ==
    /\ exitStatus # NoExit =>
          /\ exitStatus = 1
          /\ last.op = "Fatal"
          /\ last.h # Nil =>
                /\ Len(out) = 1
                /\ HasField(out[1], "level", "fatal")
                /\ HasField(out[1], "msg", last.msg)
    /\ (pc = "Fatal" /\ last.h # Nil) =>
          /\ exitStatus = NoExit
          /\ Len(out) = 1
          /\ HasField(out[1], "level", "fatal")

\* Fatal on a logger whose threshold is the strictest one has exited.
C9_Witness ==
    /\ exitStatus = 1
    /\ last.op = "Fatal" /\ last.h # Nil
    /\ ThresholdName(last.h) = "fatal"
    /\ Len(out) = 1

(***************************************************************************)
(* Specification of derivation: a tree of up to MaxDeriveHandles loggers   *)
(* under a root that lets every level pass, each logging at Info.          *)
(***************************************************************************)
InitDerive ==
    /\ LevelIdle
    /\ ThreadsIdle
    /\ LevelerIdle
    /\ InitLogger({"all"}, {TRUE}, {""})

NextDerive ==
    \/ DeriveNew(MaxDeriveHandles)
    \/ DeriveWith(MaxDeriveHandles)
    \/ LogCall({"Info"}, 1..Len(handles), {<<>>})

SpecDerive == InitDerive /\ [][NextDerive]_vars

\* The dot-joined path of the names given along handle i's derivation.
PathOf(i) == Join(handles[i].chain, ".")

\* C2: a record emitted by the logger reached from root n0 through New(n1),
\* ..., New(nk) carries a src field equal to n0.n1. ... .nk.
C2_SubLoggerSrc ==
    (last.op \in LogMethods /\ last.h # Nil /\ out # <<>>) =>
        HasField(out[1], "src", PathOf(last.h))

\* C3: whatever was derived since, the source segments of every handle are
\* the root name followed by the names given along its own derivation.
C3_DerivationKeepsSegments ==
    \A i \in 1..Len(handles) :
        SliceElems(arrays, handles[i].src) = handles[i].chain

(***************************************************************************)
(* Specification of concurrent derivation: NumThreads goroutines each      *)
(* call New or With once on a handle they share, with no synchronization.  *)
(* The method New runs statement by statement: the append for the src     *)
(* field, then (slog revisions) the second append and the Join for the    *)
(* src attribute, then the return of the new handle.                       *)
(***************************************************************************)
\* The cells of the heap append(s, x) writes and reads that are reachable
\* from s: the spare cell when it appends in place, s itself when it copies.
AppendWrites(a, s) ==
    IF s.len < SliceCap(a, s) THEN {<<s.arr, s.len + 1>>} ELSE {}

AppendReads(a, s) ==
    IF s.len < SliceCap(a, s) THEN {} ELSE {<<s.arr, i>> : i \in 1..s.len}

RECURSIVE ParentChain(_, _)
\* The heap and the handles after root.New(..).New(..), depth times.
ParentChain(r, depth) ==
    IF depth = 0
    THEN [arrays  |-> <<<<RootName>>>>,
          handles |-> <<IF r = "gokit"
                        THEN NewKit(RootName, AllOf(r), StaticFields)
                        ELSE NewSlog(RootName, AllOf(r), StaticFields, TRUE,
                                     "")>>]
    ELSE LET p == ParentChain(r, depth - 1)
             c == ChildNew(r, p.arrays, p.handles[Len(p.handles)], "sublogger")
         IN  [arrays |-> c.arrays, handles |-> Append(p.handles, c.handle)]

InitConc ==
    /\ LevelIdle
    /\ LevelerIdle
    /\ ThreadsIdle
    /\ rev \in Revisions
    /\ \E d \in 0..MaxParentDepth :
          /\ arrays = ParentChain(rev, d).arrays
          /\ handles = ParentChain(rev, d).handles
    /\ out = NoRecord
    /\ last = NoLast
    /\ pc = "idle"
    /\ exitStatus = NoExit
    /\ fault = "none"

concFrame == <<pin, pout, rev, out, last, pc, exitStatus, fault, levelerVars>>

\* Goroutine t calls l.New(name) on handle i.
ConcCallNew(t) ==
    /\ tpc[t] = "idle"
    /\ \E i \in 1..Len(handles) : \E n \in Names :
          tloc' = [tloc EXCEPT ![t] =
                     [op |-> "New", parent |-> i, name |-> n,
                      first |-> handles[i].src, second |-> handles[i].src,
                      joined |-> "", w |-> {}, r |-> {}, child |-> Nil]]
    /\ tpc' = [tpc EXCEPT ![t] = "append1"]
    /\ UNCHANGED <<concFrame, arrays, handles>>

\* src: append(l.src, name)
ConcAppend1(t) ==
    /\ tpc[t] = "append1"
    /\ LET s   == handles[tloc[t].parent].src
           res == AppendStr(arrays, s, tloc[t].name)
       IN  /\ arrays' = res.arrays
           /\ tloc' = [tloc EXCEPT ![t].first = res.slice,
                                   ![t].w = @ \cup AppendWrites(arrays, s),
                                   ![t].r = @ \cup AppendReads(arrays, s)]
    /\ tpc' = [tpc EXCEPT ![t] = IF rev = "gokit" THEN "return" ELSE "append2"]
    /\ UNCHANGED <<concFrame, handles>>

\* append(l.src, name), the argument of strings.Join
ConcAppend2(t) ==
    /\ tpc[t] = "append2"
    /\ LET s   == handles[tloc[t].parent].src
           res == AppendStr(arrays, s, tloc[t].name)
       IN  /\ arrays' = res.arrays
           /\ tloc' = [tloc EXCEPT ![t].second = res.slice,
                                   ![t].w = @ \cup AppendWrites(arrays, s),
                                   ![t].r = @ \cup AppendReads(arrays, s)]
    /\ tpc' = [tpc EXCEPT ![t] = "join"]
    /\ UNCHANGED <<concFrame, handles>>

\* strings.Join(..., "."): reads every element of the appended slice.
ConcJoin(t) ==
    /\ tpc[t] = "join"
    /\ LET s == tloc[t].second
       IN  tloc' = [tloc EXCEPT
                      ![t].joined = Join(SliceElems(arrays, s), "."),
                      ![t].r = @ \cup {<<s.arr, i>> : i \in 1..s.len}]
    /\ tpc' = [tpc EXCEPT ![t] = "return"]
    /\ UNCHANGED <<concFrame, arrays, handles>>

\* return &L{...}
ConcReturn(t) ==
    /\ tpc[t] = "return"
    /\ LET h == handles[tloc[t].parent]
       IN  handles' = Append(handles,
              [logger     |-> IF rev = "gokit" THEN h.logger
                              ELSE Append(h.logger, <<"src", tloc[t].joined>>),
               level      |-> h.level,
               src        |-> tloc[t].first,
               showCaller |-> IF rev = "slog1" THEN FALSE ELSE h.showCaller,
               trim       |-> h.trim,
               chain      |-> Append(h.chain, tloc[t].name),
               via        |-> Append(h.via, <<"New", tloc[t].name>>)])
    /\ tloc' = [tloc EXCEPT ![t].child = Len(handles) + 1]
    /\ tpc' = [tpc EXCEPT ![t] = "done"]
    /\ UNCHANGED <<concFrame, arrays>>

\* Goroutine t calls l.With(keyvals...) on handle i: it copies the slice
\* header l.src and touches no element.
ConcWith(t) ==
    /\ tpc[t] = "idle"
    /\ \E i \in 1..Len(handles) : \E kv \in WithKeyvals :
          /\ handles' = Append(handles, ChildWith(rev, handles[i], kv))
          /\ tloc' = [tloc EXCEPT ![t] =
                        [op |-> "With", parent |-> i, name |-> "",
                         first |-> handles[i].src, second |-> handles[i].src,
                         joined |-> "", w |-> {}, r |-> {},
                         child |-> Len(handles) + 1]]
    /\ tpc' = [tpc EXCEPT ![t] = "done"]
    /\ UNCHANGED <<concFrame, arrays>>

NextConc ==
    \E t \in Threads :
        \/ ConcCallNew(t)
        \/ ConcAppend1(t)
        \/ ConcAppend2(t)
        \/ ConcJoin(t)
        \/ ConcReturn(t)
        \/ ConcWith(t)

SpecConc == InitConc /\ [][NextConc]_vars

\* The cells goroutine t's call has written, and has read or written.
Written(t) == IF tloc[t].op = "none" THEN {} ELSE tloc[t].w

Touched(t) == IF tloc[t].op = "none" THEN {} ELSE tloc[t].w \cup tloc[t].r

\* C4: calls of New and With by different goroutines on a shared handle
\* never write a memory cell another of the calls reads or writes, and each
\* returned child has the parent's segments followed by its own name.
C4_ConcurrentDerivationSafe ==
    /\ \A t, u \in Threads : t # u => Written(t) \cap Touched(u) = {}
    /\ \A t \in Threads :
          tpc[t] = "done" =>
              SliceElems(arrays, handles[tloc[t].child].src)
                  = handles[tloc[t].child].chain

(***************************************************************************)
(* Specification of the DynamicLeveler: NumThreads goroutines call         *)
(* SetLevel and Level on one leveler, again and again.  SetLevel parses    *)
(* its argument and then stores; Store and Load of the atomic.Value are    *)
(* single steps.                                                           *)
(***************************************************************************)
InitialLevels == {"warn", ""}

LevelArgs == {"debug", "Err", "x"}

\* NewDynamicLeveler that leaves the zero slog.Level in place of the parse.
InitialLevel_Ignored(s0) == {LevelInfo}

\* The values NewDynamicLeveler(s0) can store.
InitialLevel(s0) == ParseLevel("slog2", s0)

InitLeveler ==
    /\ LevelIdle
    /\ LoggerIdle
    /\ ThreadsIdle
    /\ \E s0 \in InitialLevels : \E v \in InitialLevel(s0) :
          /\ dyn = [set |-> TRUE, val |-> v]
          /\ started = {s0}
    /\ settled = NoSetLevel

levelerFrame == <<pin, pout, rev, arrays, handles, out, last, pc, exitStatus>>

\* Goroutine t enters d.SetLevel(s): ParseLevel(s) is evaluated.
SetLevelCall(t) ==
    /\ fault = "none"
    /\ tpc[t] = "idle"
    /\ \E s \in LevelArgs : \E v \in ParseLevel("slog2", s) :
          /\ tloc' = [u \in Threads |->
                        IF u = t THEN [op |-> "SetLevel", s |-> s, val |-> v]
                        ELSE IF tloc[u].op = "Level"
                             THEN [tloc[u] EXCEPT !.clean = FALSE]
                             ELSE tloc[u]]
          /\ started' = started \cup {s}
    /\ settled' = NoSetLevel
    /\ tpc' = [tpc EXCEPT ![t] = "store"]
    /\ UNCHANGED <<levelerFrame, fault, dyn>>

\* d.level.Store(...), and SetLevel returns.
SetLevelStore(t) ==
    /\ fault = "none"
    /\ tpc[t] = "store"
    /\ dyn' = [set |-> TRUE, val |-> tloc[t].val]
    /\ settled' = IF \E u \in Threads \ {t} : tpc[u] = "store"
                  THEN NoSetLevel
                  ELSE [set |-> TRUE, s |-> tloc[t].s, val |-> tloc[t].val]
    /\ tloc' = [tloc EXCEPT ![t] = NoLocals]
    /\ tpc' = [tpc EXCEPT ![t] = "idle"]
    /\ UNCHANGED <<levelerFrame, fault, started>>

\* Goroutine t enters d.Level().
LevelCall(t) ==
    /\ fault = "none"
    /\ tpc[t] = "idle"
    /\ tloc' = [tloc EXCEPT ![t] = [op |-> "Level", clean |-> settled.set]]
    /\ tpc' = [tpc EXCEPT ![t] = "load"]
    /\ UNCHANGED <<levelerFrame, fault, levelerVars>>

\* d.level.Load().(slog.Level), and Level returns: the type assertion
\* panics on the nil that Load gives for a Value never stored to.
LevelLoad(t) ==
    /\ fault = "none"
    /\ tpc[t] = "load"
    /\ IF dyn.set
       THEN /\ tloc' = [tloc EXCEPT ![t] =
                          [op |-> "LevelDone", res |-> dyn.val,
                           clean |-> tloc[t].clean, after |-> settled,
                           seen |-> started]]
            /\ UNCHANGED fault
       ELSE /\ fault' = "Level"
            /\ UNCHANGED tloc
    /\ tpc' = [tpc EXCEPT ![t] = "idle"]
    /\ UNCHANGED <<levelerFrame, levelerVars>>

NextLeveler ==
    \E t \in Threads :
        \/ SetLevelCall(t)
        \/ SetLevelStore(t)
        \/ LevelCall(t)
        \/ LevelLoad(t)

SpecLeveler == InitLeveler /\ [][NextLeveler]_vars

\* C10: under any interleaving of SetLevel and Level calls, Level never
\* faults and returns a value ParseLevel gives for the initial level or for
\* the argument of a SetLevel call started before it returned; and a Level
\* that starts after SetLevel(s) returned, with no other SetLevel running or
\* started since, returns the value that call parsed from s.
C10_LevelerAtomic ==
    /\ fault = "none"
    /\ \A t \in Threads :
          tloc[t].op = "LevelDone" =>
              /\ \E s \in tloc[t].seen : tloc[t].res \in ParseLevel("slog2", s)
              /\ tloc[t].clean =>
                    /\ tloc[t].after.set
                    /\ tloc[t].res = tloc[t].after.val
                    /\ tloc[t].res \in ParseLevel("slog2", tloc[t].after.s)

\* A Level that started after SetLevel("debug") returned gave debug, while
\* another goroutine was inside a call.
C10_Witness ==
    \E t \in Threads :
        /\ tloc[t].op = "LevelDone"
        /\ tloc[t].clean
        /\ tloc[t].after.s = "debug"
        /\ tloc[t].res = LevelDebug
        /\ \E u \in Threads \ {t} : tpc[u] # "idle"

(***************************************************************************)
(* Specification of bound fields: up to MaxFieldHandles loggers under an   *)
(* info-level root built with or without caller display and a caller       *)
(* prefix to trim, each logging at Info with and without per-call pairs.   *)
(***************************************************************************)
MaxFieldHandles == 3

\* The callerPrefixTrim of the root, as WithCallerPrefixTrim stores it.
Trims == {"", "g/"}

InitFields ==
    /\ LevelIdle
    /\ ThreadsIdle
    /\ LevelerIdle
    /\ InitLogger({"info"}, BOOLEAN, Trims)

NextFields ==
    \/ DeriveNew(MaxFieldHandles)
    \/ DeriveWith(MaxFieldHandles)
    \/ LogCall({"Info"}, 1..Len(handles), CallKeyvals)

SpecFields == InitFields /\ [][NextFields]_vars

\* Every pair of the sequence kvs is a field of rec.
HasFields(rec, kvs) == \A j \in 1..Len(kvs) : HasField(rec, kvs[j][1], kvs[j][2])

\* C11: a record emitted by root.New(n).With(F), the root built with static
\* fields S, contains every pair of S, every pair of F, every per-call pair
\* and src = root.n: With kept the source path and every field bound before.
C11_FieldAugmentation ==
    (last.op \in LogMethods /\ last.h # Nil) =>
        \A n \in Names : \A F \in WithKeyvals :
            handles[last.h].via = <<<<"New", n>>, <<"With", F>>>> =>
                /\ Len(out) = 1
                /\ HasFields(out[1], StaticFields)
                /\ HasFields(out[1], F)
                /\ HasFields(out[1], last.keyvals)
                /\ HasField(out[1], "src", RootName \o "." \o n)

\* root.New("sublogger").With("key4", "value4") logged with a per-call pair.
C11_Witness ==
    /\ last.op = "Info" /\ last.h # Nil
    /\ handles[last.h].via
          = <<<<"New", "sublogger">>, <<"With", <<<<"key4", "value4">>>>>>>>
    /\ last.keyvals = <<<<"key2", "value2">>>>
    /\ Len(out) = 1
    /\ HasField(out[1], "key1", "value1")
    /\ HasField(out[1], "key4", "value4")
    /\ HasField(out[1], "key2", "value2")
    /\ HasField(out[1], "src", "somelogger.sublogger")

\* The keys of rec, in the order written.
KeysOf(rec) == [j \in 1..Len(rec) |-> rec[j][1]]

\* C12: every logger derived by New and With has the caller-display flag and
\* the caller-prefix trim of the root it was derived from, and a record it
\* emits contains a caller field exactly when caller display was enabled on
\* the root.
C12_CallerSettingsInherited ==
    /\ \A i \in 1..Len(handles) :
          /\ handles[i].showCaller = handles[1].showCaller
          /\ handles[i].trim = handles[1].trim
    /\ (last.op \in LogMethods /\ last.h # Nil /\ out # <<>>) =>
          (ValuesOf(out[1], "caller") # <<>> <=> handles[1].showCaller)

(***************************************************************************)
(* Options: the record New fills, and the mutators that fill it.           *)
(***************************************************************************)
MaxOpts == 3

\* strings.HasSuffix
HasSuffix(s, suffix) ==
    /\ Len(suffix) <= Len(s)
    /\ SubSeq(s, Len(s) - Len(suffix) + 1, Len(s)) = suffix

\* filepath.Base(os.Args[0]) of the test binary.
ExeName == "go-logger.test"

\* The options New starts from: the fields it names, the rest zero values.
DefaultOptions ==
    [format           |-> "",
     name             |-> ExeName,
     keyvals          |-> <<>>,
     level            |-> "",
     destination      |-> "stdout",
     showCaller       |-> TRUE,
     callerPrefixTrim |-> ""]

\* An Option value: the mutator that built it and the argument it closed over
\* (str for a string or a writer, flag for a bool, kvs for key-value pairs).
Mutator(fn, str, flag, kvs) == [fn |-> fn, str |-> str, flag |-> flag, kvs |-> kvs]

OptionValues ==
    {Mutator("WithFormat", s, FALSE, <<>>) : s \in {"json", "logfmt"}}
        \cup {Mutator("With", "", FALSE, kv) :
                 kv \in {<<<<"key1", "value1">>>>, <<<<"somekey", "someval">>>>}}
        \cup {Mutator("WithLevel", s, FALSE, <<>>) : s \in {"info", "debug"}}
        \cup {Mutator("WithDestination", w, FALSE, <<>>) : w \in {"buf", "nil"}}
        \cup {Mutator("WithName", s, FALSE, <<>>) : s \in {"myapp", "somelogger"}}
        \cup {Mutator("WithCaller", "", b, <<>>) : b \in BOOLEAN}
        \cup {Mutator("WithCallerPrefixTrim", s, FALSE, <<>>) : s \in {"g", "g/", ""}}

\* The mutators, With appending to the pairs given before.
ApplyOption_WithAppends(o, m) ==
    CASE m.fn = "WithFormat" -> [o EXCEPT !.format = m.str]
      [] m.fn = "With" -> [o EXCEPT !.keyvals = @ \o m.kvs]
      [] m.fn = "WithLevel" -> [o EXCEPT !.level = m.str]
      [] m.fn = "WithDestination" -> [o EXCEPT !.destination = m.str]
      [] m.fn = "WithName" -> [o EXCEPT !.name = m.str]
      [] m.fn = "WithCaller" -> [o EXCEPT !.showCaller = m.flag]
      [] m.fn = "WithCallerPrefixTrim" ->
            IF m.str # ""
            THEN [o EXCEPT !.callerPrefixTrim =
                     IF HasSuffix(m.str, "/") THEN m.str ELSE m.str \o "/"]
            ELSE o

\* o(opt) for the Option m.
ApplyOption(o, m) ==
    CASE m.fn = "WithFormat" -> [o EXCEPT !.format = m.str]
      [] m.fn = "With" -> [o EXCEPT !.keyvals = m.kvs]
      [] m.fn = "WithLevel" -> [o EXCEPT !.level = m.str]
      [] m.fn = "WithDestination" -> [o EXCEPT !.destination = m.str]
      [] m.fn = "WithName" -> [o EXCEPT !.name = m.str]
      [] m.fn = "WithCaller" -> [o EXCEPT !.showCaller = m.flag]
      [] m.fn = "WithCallerPrefixTrim" ->
            IF m.str # ""
            THEN [o EXCEPT !.callerPrefixTrim =
                     IF HasSuffix(m.str, "/") THEN m.str ELSE m.str \o "/"]
            ELSE o

\* The loop of New: for _, o := range opts { o(opt) }
RECURSIVE ApplyOptions(_, _)
ApplyOptions(o, opts) ==
    IF opts = <<>> THEN o
    ELSE ApplyOptions(ApplyOption(o, Head(opts)), Tail(opts))

\* New of the go-kit revision: if w == nil { w = os.Stdout }
NewKitWriter(w) == IF w = "nil" THEN "stdout" ELSE w

\* New of the slog revisions hands opt.destination to the handler as it is.
NewSlogWriter(opt) == opt.destination

\* Writing a record to the destination faults when it is a nil io.Writer.
WriteFaults(destination) == destination = "nil"

(***************************************************************************)
(* Message values: the dynamic type T of the value, and what it is: a      *)
(* string s, an error with text e, a fmt.Stringer with text g.             *)
(***************************************************************************)
MsgValue(T, isString, s, isError, e, isStringer, g) ==
    [T |-> T, isString |-> isString, s |-> s, isError |-> isError, e |-> e,
     isStringer |-> isStringer, g |-> g]

MsgValues ==
    {MsgValue("string", TRUE, "string", FALSE, "", FALSE, ""),
     MsgValue("*errors.errorString", FALSE, "", TRUE, "error", FALSE, ""),
     MsgValue("*logger.myError", FALSE, "", TRUE, "my error", FALSE, ""),
     MsgValue("*logger.myStringer", FALSE, "", FALSE, "", TRUE, "my string"),
     MsgValue("*logger.myBoth", FALSE, "", TRUE, "my error", TRUE, "my string"),
     MsgValue("*logger.notErrorStringer", FALSE, "", FALSE, "", FALSE, ""),
     MsgValue("<nil>", FALSE, "", FALSE, "", FALSE, "")}

\* The type switch with the fmt.Stringer case above the error case.
toString_StringerFirst(v) ==
    IF v.isString THEN v.s
    ELSE IF v.isStringer THEN v.g
    ELSE IF v.isError THEN v.e
    ELSE "unable to convert type " \o v.T \o " to string"

\* toString: the type switch, its cases tried from the top.
toString(v) ==
    IF v.isString THEN v.s
    ELSE IF v.isError THEN v.e
    ELSE IF v.isStringer THEN v.g
    ELSE "unable to convert type " \o v.T \o " to string"

(***************************************************************************)
(* Specification of configuration: one call of New (with options, or with  *)
(* the go-kit revision's writer) followed by a call that writes a record,  *)
(* or one call of caller on a logger built with WithCallerPrefixTrim(p),   *)
(* or one call of toString.                                                *)
(***************************************************************************)
\* The strings a call site resolves to.
Callers == {"g/p/f.go:29", "gx/f.go:1", "g//f.go:3", "p/f.go:7"}

\* The arguments of WithCallerPrefixTrim.
Prefixes == {"", "g", "g/", "g//", "g/p", "x"}

Writers == {"buf", "nil"}

InitConfig ==
    /\ LoggerIdle
    /\ ThreadsIdle
    /\ LevelerIdle
    /\ pout = NoCall
    /\ \/ \E opts \in SeqsUpTo(OptionValues, MaxOpts) :
             pin = [kind |-> "New", opts |-> opts]
       \/ \E w \in Writers : pin = [kind |-> "NewKit", w |-> w]
       \/ \E c \in Callers : \E p \in Prefixes :
             pin = [kind |-> "caller", c |-> c, p |-> p]
       \/ \E v \in MsgValues : pin = [kind |-> "toString", msg |-> v]

configFrame == <<pin, loggerVars, threadVars, levelerVars>>

\* New(opts...) of the slog revisions.
DoNew ==
    /\ pin.kind = "New" /\ pout = NoCall
    /\ LET opt == ApplyOptions(DefaultOptions, pin.opts)
       IN  pout' = [op |-> "New", opt |-> opt,
                    destination |-> NewSlogWriter(opt),
                    logged |-> FALSE, faulted |-> FALSE]
    /\ UNCHANGED configFrame

\* New(w, ...) of the go-kit revision.
DoNewKit ==
    /\ pin.kind = "NewKit" /\ pout = NoCall
    /\ pout' = [op |-> "NewKit", opt |-> DefaultOptions,
                destination |-> NewKitWriter(pin.w),
                logged |-> FALSE, faulted |-> FALSE]
    /\ UNCHANGED configFrame

\* A logging call on the new logger whose record passes the level filter.
DoLog ==
    /\ pout.op \in {"New", "NewKit"} /\ ~pout.logged
    /\ pout' = [pout EXCEPT !.logged = TRUE,
                            !.faulted = WriteFaults(pout.destination)]
    /\ UNCHANGED configFrame

\* (*L).log resolving its caller on a logger built with
\* WithCallerPrefixTrim(p).
DoCaller ==
    /\ pin.kind = "caller" /\ pout = NoCall
    /\ LET opt == ApplyOptions(DefaultOptions,
                     <<Mutator("WithCallerPrefixTrim", pin.p, FALSE, <<>>)>>)
       IN  pout' = [op |-> "caller", trim |-> opt.callerPrefixTrim,
                    res |-> caller(pin.c, opt.callerPrefixTrim)]
    /\ UNCHANGED configFrame

\* toString(msg), as (*L).log calls it.
DoToString ==
    /\ pin.kind = "toString" /\ pout = NoCall
    /\ pout' = [op |-> "toString", res |-> toString(pin.msg)]
    /\ UNCHANGED configFrame

NextConfig ==
    \/ DoNew
    \/ DoNewKit
    \/ DoLog
    \/ DoCaller
    \/ DoToString

SpecConfig == InitConfig /\ [][NextConfig]_vars

\* The position in opts of the last mutator built by fn that satisfies
\* counts, 0 if there is none.
LastOf(opts, fn, counts(_)) ==
    LET S == {j \in 1..Len(opts) : opts[j].fn = fn /\ counts(opts[j])}
    IN  IF S = {} THEN 0 ELSE CHOOSE j \in S : \A k \in S : k <= j

AnyArg(m) == TRUE

NonEmptyStr(m) == m.str # ""

\* The string given by the last mutator built by fn, default if none was.
LastStr(opts, fn, default) ==
    LET j == LastOf(opts, fn, AnyArg) IN IF j = 0 THEN default ELSE opts[j].str

EndsInSlash(s) == Len(s) > 0 /\ SubSeq(s, Len(s), Len(s)) = "/"

\* What New's options are for every option but the caller-prefix trim: the
\* default, or what the last mutator for the option gave; the static fields
\* are the arguments of the last With.
OptionsButTrim(o, opts) ==
    /\ o.format = LastStr(opts, "WithFormat", "")
    /\ o.name = LastStr(opts, "WithName", ExeName)
    /\ o.level = LastStr(opts, "WithLevel", "")
    /\ o.destination = LastStr(opts, "WithDestination", "stdout")
    /\ o.showCaller = LET j == LastOf(opts, "WithCaller", AnyArg)
                      IN  IF j = 0 THEN TRUE ELSE opts[j].flag
    /\ o.keyvals = LET j == LastOf(opts, "With", AnyArg)
                   IN  IF j = 0 THEN <<>> ELSE opts[j].kvs

\* C13 as stated: New applies its mutators in call order to the defaults
\* (destination standard output, name the executable's base name, caller
\* display on); every scalar option, the caller-prefix trim among them, has
\* the value the last mutator for it gave, and the static fields are the
\* arguments of the last With.
C13_LastMutatorWins ==
    pout.op = "New" =>
        /\ OptionsButTrim(pout.opt, pin.opts)
        /\ pout.opt.callerPrefixTrim
              = LastStr(pin.opts, "WithCallerPrefixTrim", "")

\* C13 as amended: the same for every option but the caller-prefix trim; the
\* trim in effect is the string of the last WithCallerPrefixTrim given a
\* non-empty string, with "/" appended unless it ends in "/", and is empty
\* when there is no such mutator.
C13_OptionAssembly ==
    pout.op = "New" =>
        /\ OptionsButTrim(pout.opt, pin.opts)
        /\ pout.opt.callerPrefixTrim
              = LET j == LastOf(pin.opts, "WithCallerPrefixTrim", NonEmptyStr)
                IN  IF j = 0 THEN ""
                    ELSE IF EndsInSlash(pin.opts[j].str) THEN pin.opts[j].str
                    ELSE pin.opts[j].str \o "/"

\* New was given two With mutators with different pairs and, between them,
\* a trim; the static fields are the pairs of the second With.
C13_Witness ==
    /\ pout.op = "New"
    /\ Len(pin.opts) = 3
    /\ pin.opts[1].fn = "With" /\ pin.opts[3].fn = "With"
    /\ pin.opts[1].kvs # pin.opts[3].kvs
    /\ pin.opts[2].fn = "WithCallerPrefixTrim" /\ pin.opts[2].str = "g"
    /\ pout.opt.keyvals = pin.opts[3].kvs
    /\ pout.opt.callerPrefixTrim = "g/"

\* s without its trailing "/" characters.
RECURSIVE StripSlashes(_)
StripSlashes(s) ==
    IF EndsInSlash(s) THEN StripSlashes(SubSeq(s, 1, Len(s) - 1)) ELSE s

StartsWith(c, q) == Len(q) <= Len(c) /\ SubSeq(c, 1, Len(q)) = q

\* c with q removed from its front when c starts with q, c otherwise.
Trimmed(c, q) ==
    IF StartsWith(c, q) THEN SubSeq(c, Len(q) + 1, Len(c)) ELSE c

\* C14 as stated: for a resolved caller c and a non-empty prefix p the
\* emitted caller is c with p, normalised to end in exactly one "/", removed
\* from its front when c starts with it, and c otherwise; with an empty
\* prefix it is c.
C14_TrimExactlyOneSlash ==
    pout.op = "caller" =>
        pout.res = IF pin.p = "" THEN pin.c
                   ELSE Trimmed(pin.c, StripSlashes(pin.p) \o "/")

\* C14 as amended: the prefix removed is p with "/" appended unless p ends
\* in "/" already; a p that ends in more than one "/" keeps them all.
C14_CallerPrefixTrim ==
    pout.op = "caller" =>
        pout.res = IF pin.p = "" THEN pin.c
                   ELSE Trimmed(pin.c, IF EndsInSlash(pin.p) THEN pin.p
                                       ELSE pin.p \o "/")

\* The prefix "g" trimmed "g/" off a caller under g/.
C14_Witness ==
    /\ pout.op = "caller"
    /\ pin.p = "g" /\ pin.c = "g/p/f.go:29"
    /\ pout.res = "p/f.go:29"

\* C15: toString returns the message itself if it is a string, else its
\* Error() text if it is an error, else its String() text if it is a
\* stringer, else "unable to convert type <T> to string"; a value that is
\* both an error and a stringer is rendered by Error(); it returns a string
\* for every message value.
C15_ToString ==
    pout.op = "toString" =>
        LET v == pin.msg
        IN  /\ v.isString => pout.res = v.s
            /\ (~v.isString /\ v.isError) => pout.res = v.e
            /\ (~v.isString /\ ~v.isError /\ v.isStringer) => pout.res = v.g
            /\ (~v.isString /\ ~v.isError /\ ~v.isStringer) =>
                  pout.res = "unable to convert type " \o v.T \o " to string"
            /\ pout.res \in STRING

\* A value that is both an error and a stringer was rendered by Error().
C15_Witness ==
    /\ pout.op = "toString"
    /\ pin.msg.isError /\ pin.msg.isStringer
    /\ pout.res = "my error"

\* The pairs bound by the With calls of the derivation via, in call order.
RECURSIVE WithPairs(_)
WithPairs(via) ==
    IF via = <<>> THEN <<>>
    ELSE (IF Head(via)[1] = "With" THEN Head(via)[2] ELSE <<>>)
             \o WithPairs(Tail(via))

\* C16: the keys of a record are, in this order: ts, caller when caller
\* display is enabled, the bound fields in the order they were bound (static
\* fields, src, With fields), level, msg, the per-call pairs' keys in call
\* order.
C16_KeyOrder ==
    (last.op \in LogMethods /\ last.h # Nil /\ out # <<>>) =>
        KeysOf(out[1])
            = <<"ts">>
                \o (IF handles[last.h].showCaller THEN <<"caller">> ELSE <<>>)
                \o KeysOf(StaticFields)
                \o <<"src">>
                \o KeysOf(WithPairs(handles[last.h].via))
                \o <<"level", "msg">>
                \o KeysOf(last.keyvals)

\* C18: a record has exactly one src field, whose value is the dot-joined
\* path of the logger that emitted it; it carries no ancestor's src.
C18_SingleSrc ==
    (last.op \in LogMethods /\ last.h # Nil /\ out # <<>>) =>
        ValuesOf(out[1], "src") = <<<<"src", PathOf(last.h)>>>>

\* C17: the logger New returns is bound to a non-nil destination, which is
\* standard output when no destination, or a nil one, was given; no logging
\* call on it faults for want of a writer.
C17_DestinationDefaulted ==
    pout.op \in {"New", "NewKit"} =>
        LET given == IF pout.op = "New"
                     THEN LastStr(pin.opts, "WithDestination", "nil")
                     ELSE pin.w
        IN  /\ pout.destination # "nil"
            /\ given = "nil" => pout.destination = "stdout"
            /\ pout.logged => ~pout.faulted

====
